---- MODULE Spec2Model ----
(***************************************************************************)
(* Model of the compliance scanner (backend/scanner.py, backend/app.py):   *)
(* the violation ledger, the reconciliation algorithm Scanner._reconcile,  *)
(* the scan cycle Scanner.scan_once with its state lock, the background    *)
(* loop, and the HTTP readers.                                             *)
(*                                                                         *)
(* Timestamps (now_iso strings, second resolution, ordered as time) are    *)
(* naturals.  Python None is None (-1) for timestamps and NoneStr for      *)
(* strings; a key that a dict does not hold is Absent (-2) / "absent".     *)
(***************************************************************************)
EXTENDS Integers, Sequences, FiniteSets, TLC

\* ------------------------------------------------------------------ bounds
MaxTime == 1      \* the clock runs over 0..MaxTime
MaxDetLen == 2    \* longest candidate list a detector returns
MaxMtime == 1     \* file modification times run over 0..MaxMtime
MaxUploads == 1   \* uploaded policies the list holds at a time

\* ------------------------------------------------------------------ values
None == -1
Absent == -2
NoneStr == "None"

\* The six descriptive keys of _reconcile's update loop are treated alike;
\* two of them are modelled.
DescKeys == {"title", "severity"}

\* A raw id as a detector returns it: None, a string, or a number (JSON).
NoneId == [k |-> "none", s |-> "None"]
StrIdOf(s) == [k |-> "str", s |-> s]
IntIdOf(s) == [k |-> "int", s |-> s]

\* v.get("id") is not None
HasId(v) == v.id.k # "none"

\* A mutant of StrId: the type tag leaks into the key, so 7 and "7" differ.
StrId_Tagged(id) == IF id.k = "int" THEN "#" \o id.s ELSE id.s

\* str(v.get("id")): the key under which entries and candidates are matched.
StrId(id) == id.s

\* A candidate record as a detector returns it.
Cand(id, title, severity, first, last, created, read, status) ==
  [id |-> id, desc |-> [k \in DescKeys |-> IF k = "title" THEN title ELSE severity],
   firstSeenIso |-> first, lastSeenIso |-> last, createdAtIso |-> created,
   read |-> read, status |-> status]

Plain(id, title, severity) ==
  Cand(id, title, severity, Absent, Absent, Absent, "absent", "absent")

\* The candidates the detectors are let to return: the heuristic detector's
\* shape (Plain), the same identity as a number with changed wording and a
\* missing key, a record without id, and records that carry ledger fields of
\* their own (a timestamp ahead of the clock, a read flag, a status; a null
\* firstSeenIso).
CandSet ==
  { Plain(StrIdOf("7"), "t1", "low"),
    Plain(IntIdOf("7"), "t2", NoneStr),
    Plain(NoneId, "t1", "low"),
    Cand(StrIdOf("b"), "t1", "high", MaxTime, Absent, Absent, "True", "RESOLVED"),
    Cand(StrIdOf("b"), "t1", "high", None, Absent, 0, "absent", "absent") }

RECURSIVE SeqsUpTo(_, _)
SeqsUpTo(S, n) ==
  IF n = 0 THEN {<<>>}
  ELSE LET shorter == SeqsUpTo(S, n - 1)
       IN  shorter \cup {Append(q, x) : q \in {r \in shorter : Len(r) = n - 1}, x \in S}

DetLists == SeqsUpTo(CandSet, MaxDetLen)

\* ------------------------------------------------------ Scanner._reconcile
\* the keys of detected_by_id, in order of first occurrence (dict insertion
\* order); records without id are left out
RECURSIVE DetKeys(_)
DetKeys(D) ==
  IF D = <<>> THEN <<>>
  ELSE LET front == DetKeys(SubSeq(D, 1, Len(D) - 1))
           v == D[Len(D)]
       IN  IF HasId(v) /\ \A i \in 1..Len(front) : front[i] # StrId(v.id)
           THEN Append(front, StrId(v.id))
           ELSE front

\* A mutant of DetValue: the first record of an id wins, not the last.
DetValue_First(D, key) ==
  LET idx == {i \in 1..Len(D) : HasId(D[i]) /\ StrId(D[i].id) = key}
  IN  D[CHOOSE i \in idx : \A j \in idx : i <= j]

\* the value detected_by_id holds for a key: a later record of the same key
\* overwrites an earlier one
DetValue(D, key) ==
  LET idx == {i \in 1..Len(D) : HasId(D[i]) /\ StrId(D[i].id) = key}
  IN  D[CHOOSE i \in idx : \A j \in idx : j <= i]

\* A mutant of DetectedById: every record with an id is kept, repeats included.
DetectedById_All(D) == SelectSeq(D, HasId)

\* lines 588-590: detected_by_id, as the sequence of its values in key order
DetectedById(D) ==
  LET keys == DetKeys(D) IN [i \in 1..Len(keys) |-> DetValue(D, keys[i])]

\* Every detected_by_id a detector's list can give.
DetDicts == {DetectedById(D) : D \in DetLists}

\* The same, with the keys the list named more than once.
DetOutcomes ==
  {[dd |-> DetectedById(D),
    dupKeys |-> {StrId(D[i].id) : i \in
                   {i \in 1..Len(D) :
                      /\ HasId(D[i])
                      /\ \E j \in 1..Len(D) :
                           j # i /\ HasId(D[j]) /\ StrId(D[j].id) = StrId(D[i].id)}}] :
   D \in DetLists}

DetKeySet(dd) == {StrId(dd[i].id) : i \in 1..Len(dd)}

\* detected_by_id[vid]
Lookup(dd, key) == dd[CHOOSE i \in 1..Len(dd) : StrId(dd[i].id) = key]

\* existing_by_id's keys
ExistingKeys(existing) ==
  {StrId(existing[i].id) : i \in {j \in 1..Len(existing) : HasId(existing[j])}}

\* A mutant of MarkSeen: lastSeenIso is not refreshed.
MarkSeen_Stale(old, now) ==
  [old EXCEPT !.firstSeenIso =
     IF @ = None THEN (IF old.createdAtIso # None THEN old.createdAtIso ELSE now) ELSE @]

\* A mutant of MarkSeen: firstSeenIso is set anew at every sighting.
MarkSeen_ResetFirst(old, now) ==
  [old EXCEPT !.firstSeenIso = now, !.lastSeenIso = now]

\* lines 609-611
MarkSeen(old, now) ==
  [old EXCEPT !.firstSeenIso =
     IF @ = None THEN (IF old.createdAtIso # None THEN old.createdAtIso ELSE now) ELSE @,
              !.lastSeenIso = now]

\* line 615
ReopenStatus(old) == [old EXCEPT !.status = "OPEN"]

\* A mutant of ReopenClear: the resolution time survives a reopen.
ReopenClear_Keep(old) == old

\* line 616
ReopenClear(old) == [old EXCEPT !.resolvedAtIso = None]

\* line 622: the keys whose detected value is given and differs
DiffKeys(old, d) ==
  {k \in DescKeys : d.desc[k] # NoneStr /\ d.desc[k] # old.desc[k]}

\* A mutant of UpdateDetails: the improved wording is not stored.
UpdateDetails_Drop(old, d) == old

\* lines 621-623
UpdateDetails(old, d) ==
  [old EXCEPT !.desc = [k \in DescKeys |->
     IF k \in DiffKeys(old, d) THEN d.desc[k] ELSE old.desc[k]]]

\* line 630
ResolveStatus(old) == [old EXCEPT !.status = "RESOLVED"]

\* line 631
ResolveAt(old, now) == [old EXCEPT !.resolvedAtIso = now]

\* lines 640-646: dict(d), the setdefaults, then status and resolvedAtIso forced
NewItem(d, now) ==
  [id |-> d.id,
   desc |-> d.desc,
   firstSeenIso |-> IF d.firstSeenIso = Absent THEN now ELSE d.firstSeenIso,
   lastSeenIso |-> IF d.lastSeenIso = Absent THEN now ELSE d.lastSeenIso,
   createdAtIso |-> IF d.createdAtIso = Absent THEN now ELSE d.createdAtIso,
   read |-> IF d.read = "absent" THEN FALSE ELSE d.read = "True",
   status |-> "OPEN",
   resolvedAtIso |-> None]

\* A mutant of ReconcileOld: an entry that is not detected is left as it is.
ReconcileOld_NoResolve(old, dd, now) ==
  LET key == StrId(old.id)
  IN  IF key \in DetKeySet(dd)
      THEN LET d == Lookup(dd, key)
               seen == MarkSeen(old, now)
               opened == IF old.status = "RESOLVED"
                         THEN ReopenClear(ReopenStatus(seen)) ELSE seen
           IN  [entry |-> UpdateDetails(opened, d), key |-> key,
                changed |-> (old.status = "RESOLVED") \/ DiffKeys(opened, d) # {},
                reopened |-> IF old.status = "RESOLVED" THEN 1 ELSE 0,
                resolved |-> 0]
      ELSE [entry |-> old, key |-> key, changed |-> FALSE, reopened |-> 0, resolved |-> 0]

\* lines 603-634: one iteration of the loop over the existing entries
ReconcileOld(old, dd, now) ==
  LET key == StrId(old.id)
  IN  IF key \in DetKeySet(dd)
      THEN LET d == Lookup(dd, key)
               seen == MarkSeen(old, now)
               opened == IF old.status = "RESOLVED"
                         THEN ReopenClear(ReopenStatus(seen)) ELSE seen
           IN  [entry |-> UpdateDetails(opened, d), key |-> key,
                changed |-> (old.status = "RESOLVED") \/ DiffKeys(opened, d) # {},
                reopened |-> IF old.status = "RESOLVED" THEN 1 ELSE 0,
                resolved |-> 0]
      ELSE IF old.status # "RESOLVED"
           THEN [entry |-> ResolveAt(ResolveStatus(old), now), key |-> key,
                 changed |-> TRUE, reopened |-> 0, resolved |-> 1]
           ELSE [entry |-> old, key |-> key,
                 changed |-> FALSE, reopened |-> 0, resolved |-> 0]

\* lines 599-634: the loop; entries without id are skipped
RECURSIVE OldLoop(_, _, _)
OldLoop(existing, dd, now) ==
  IF existing = <<>> THEN <<>>
  ELSE LET rest == OldLoop(Tail(existing), dd, now)
       IN  IF HasId(Head(existing))
           THEN <<ReconcileOld(Head(existing), dd, now)>> \o rest
           ELSE rest

\* lines 637-649: the loop over detected_by_id; each new item is inserted at
\* index 0, so the items come out in reverse order of the keys
RECURSIVE NewLoop(_, _, _)
NewLoop(dd, existing, now) ==
  IF dd = <<>> THEN <<>>
  ELSE LET rest == NewLoop(Tail(dd), existing, now)
       IN  IF StrId(Head(dd).id) \in ExistingKeys(existing)
           THEN rest
           ELSE Append(rest, NewItem(Head(dd), now))

RECURSIVE SumOf(_, _)
SumOf(s, f) == IF s = <<>> THEN 0 ELSE s[1][f] + SumOf(Tail(s), f)

OpenCount(L) == Cardinality({i \in 1..Len(L) : L[i].status = "OPEN"})

\* A mutant of Reconcile: the new items are put after the existing entries.
Reconcile_NewLast(existing, dd, now) ==
  LET olds == OldLoop(existing, dd, now)
      news == NewLoop(dd, existing, now)
      updated == [i \in 1..Len(olds) |-> olds[i].entry] \o news
  IN  [updated |-> updated,
       diff |-> [changed |-> (\E i \in 1..Len(olds) : olds[i].changed) \/ news # <<>>,
                 new |-> Len(news),
                 reopened |-> SumOf(olds, "reopened"),
                 resolved |-> SumOf(olds, "resolved"),
                 open_count |-> OpenCount(updated),
                 resolved_count |-> Len(updated) - OpenCount(updated)],
       resolvedKeys |-> {olds[i].key : i \in {j \in 1..Len(olds) : olds[j].resolved = 1}},
       reopenedKeys |-> {olds[i].key : i \in {j \in 1..Len(olds) : olds[j].reopened = 1}}]

\* lines 592-661 of _reconcile, from detected_by_id on, called at time `now`:
\* the updated list, the diff summary, and the keys behind its counters
Reconcile(existing, dd, now) ==
  LET olds == OldLoop(existing, dd, now)
      news == NewLoop(dd, existing, now)
      updated == news \o [i \in 1..Len(olds) |-> olds[i].entry]
  IN  [updated |-> updated,
       diff |-> [changed |-> (\E i \in 1..Len(olds) : olds[i].changed) \/ news # <<>>,
                 new |-> Len(news),
                 reopened |-> SumOf(olds, "reopened"),
                 resolved |-> SumOf(olds, "resolved"),
                 open_count |-> OpenCount(updated),
                 resolved_count |-> Len(updated) - OpenCount(updated)],
       resolvedKeys |-> {olds[i].key : i \in {j \in 1..Len(olds) : olds[j].resolved = 1}},
       reopenedKeys |-> {olds[i].key : i \in {j \in 1..Len(olds) : olds[j].reopened = 1}}]

OpenKeys(L) == {StrId(L[i].id) : i \in {j \in 1..Len(L) : L[j].status = "OPEN"}}

\* ------------------------------------------------- ScanState, scan_once
Scanners == {"bg", "od"}      \* the background loop; a POST /api/scan handler
Threads == Scanners \cup {"rd"}   \* and a GET /api/violations handler

\* the argument each caller passes to scan_once
Force(t) == t = "od"

\* The candidates a scan cycle's detection is let to return, and the
\* detected_by_id values they give.
ScanCands == { Plain(StrIdOf("7"), "t1", "low") }

ScanDicts == {DetectedById(D) : D \in SeqsUpTo(ScanCands, MaxDetLen)}

\* the policy list read from a directory whose newest file has mtime `latest`
\* (None: no directory, or no *.md file in it), stamped updatedAtIso = now;
\* `up` holds the ids of the policies add_policy has put in front of them,
\* none after a load
LoadedPolicies(latest, now) ==
  IF latest = None THEN [src |-> None, at |-> None, up |-> <<>>]
  ELSE [src |-> latest, at |-> now, up |-> <<>>]

\* A mutant of LoadPolicies: an absent signal that is absent again counts as
\* unchanged.
LoadPolicies_NoneIsSame(st, force, latest, fails, now) ==
  IF (~force) /\ latest = st.policies_mtime
     THEN [state |-> st, changed |-> FALSE]
  ELSE IF (~force) /\ st.policies_mtime # None /\ latest # None
          /\ latest <= st.policies_mtime
     THEN [state |-> st, changed |-> FALSE]
  ELSE IF fails /\ latest # None
     THEN [state |-> st, changed |-> FALSE]
  ELSE [state |-> [st EXCEPT !.policies = LoadedPolicies(latest, now),
                             !.policies_mtime = latest],
        changed |-> TRUE]

\* _load_policies_from_disk(force) as scan_once calls it (lines 130-134): the
\* new state and the value of policies_changed; `fails`: reading a policy file
\* raises, which scan_once catches
LoadPolicies(st, force, latest, fails, now) ==
  IF (~force) /\ st.policies_mtime # None /\ latest # None
     /\ latest <= st.policies_mtime
     THEN [state |-> st, changed |-> FALSE]
  ELSE IF fails /\ latest # None
     THEN [state |-> st, changed |-> FALSE]
  ELSE [state |-> [st EXCEPT !.policies = LoadedPolicies(latest, now),
                             !.policies_mtime = latest],
        changed |-> TRUE]

\* A mutant of MissingDoc: the document signal is reset when the file is gone.
MissingDoc_ResetSignal(st, now) ==
  [st EXCEPT !.last_scan_error = "missing", !.last_scan_iso = now, !.doc_mtime = None]

\* lines 138-139
MissingDoc(st, now) ==
  [st EXCEPT !.last_scan_error = "missing", !.last_scan_iso = now]

\* lines 143-145
DocChanged(st, mtime) == st.doc_mtime = None \/ mtime > st.doc_mtime

\* A mutant of FirstSection: a call that is due does not record the document
\* signal it compared.
FirstSection_NoRecord(st, force, latest, fails, doc, now) ==
  LET lp == LoadPolicies(st, FALSE, latest, fails, now)
  IN  IF doc = None
      THEN [state |-> MissingDoc(lp.state, now), result |-> "missing"]
      ELSE IF (~force) /\ (~lp.changed) /\ ~DocChanged(lp.state, doc)
      THEN [state |-> lp.state, result |-> "skip"]
      ELSE [state |-> lp.state, result |-> "due"]

\* lines 129-151, the first critical section of scan_once: what it leaves in
\* the state and how it ends ("missing", "skip": returned; "due": goes on)
FirstSection(st, force, latest, fails, doc, now) ==
  LET lp == LoadPolicies(st, FALSE, latest, fails, now)
  IN  IF doc = None
      THEN [state |-> MissingDoc(lp.state, now), result |-> "missing"]
      ELSE IF (~force) /\ (~lp.changed) /\ ~DocChanged(lp.state, doc)
      THEN [state |-> lp.state, result |-> "skip"]
      ELSE [state |-> [lp.state EXCEPT !.doc_mtime = doc], result |-> "due"]

\* lines 188-190
CommitState(st, updated, now) ==
  [st EXCEPT !.violations = updated, !.last_scan_iso = now, !.last_scan_error = "none"]

\* ---------------------------------------------------------------- state
VARIABLES
  ledger,    \* SpecReconcile: the list handed to and returned by _reconcile
  clock,     \* what now_iso() returns
  calls,     \* SpecReconcile: what the last two calls saw and reported
  state,     \* the ScanState object; violations is a list of references
  heap,      \* the violation dicts, by reference
  lock,      \* Scanner._lock: "free" or the thread holding it
  pc,        \* where each thread is
  loc,       \* the locals of each scan_once call under way
  docDisk,   \* st_mtime of the monitored document, None when it does not exist
  polDisk,   \* newest st_mtime of the policy files, None when there is none
  polBad,    \* a policy file cannot be read
  quiet      \* no file changed since the background loop's last call began

rvars == <<ledger, clock, calls>>

svars == <<state, heap, lock, pc, loc, docDisk, polDisk, polBad>>

gvars == <<quiet>>

vars == <<ledger, clock, calls, state, heap, lock, pc, loc, docDisk, polDisk,
          polBad, quiet>>

NoLoc == [existing |-> <<>>, updated |-> <<>>, dd |-> <<>>, now |-> None,
          idx |-> 0, status |-> "none"]

\* list(state.violations) with every dict read
View(refs, h) == [i \in 1..Len(refs) |-> h[refs[i]]]

LedgerView == View(state.violations, heap)

\* the dicts some list still refers to; the others are garbage
Live(st, l) ==
  {st.violations[i] : i \in 1..Len(st.violations)}
  \cup UNION {{l[t].existing[i] : i \in 1..Len(l[t].existing)} : t \in Scanners}
  \cup UNION {{l[t].updated[i] : i \in 1..Len(l[t].updated)} : t \in Scanners}

Collect(h, st, l) == [r \in Live(st, l) |-> h[r]]

\* n references that no dict has yet
RECURSIVE FreshRefs(_, _)
FreshRefs(used, n) ==
  IF n = 0 THEN <<>>
  ELSE LET r == CHOOSE x \in 1..(Cardinality(used) + 1) :
                  x \notin used /\ \A y \in 1..(x - 1) : y \in used
       IN  <<r>> \o FreshRefs(used \cup {r}, n - 1)

\* the state Scanner.__init__ leaves: sources set, policies loaded, one forced
\* scan run to its end on an empty ledger
SInit(dicts, docs, pols) ==
  /\ clock = 0
  /\ lock = "free"
  /\ pc = [t \in Threads |-> "idle"]
  /\ loc = [t \in Scanners |-> NoLoc]
  /\ docDisk \in docs
  /\ polDisk \in pols
  /\ polBad = FALSE
  /\ quiet = FALSE
  /\ \E dd \in dicts :
       LET st0 == [violations |-> <<>>, policies |-> LoadedPolicies(polDisk, 0),
                   last_scan_iso |-> None, last_scan_error |-> "none",
                   doc_mtime |-> None, policies_mtime |-> polDisk]
           fs == FirstSection(st0, TRUE, polDisk, FALSE, docDisk, 0)
           items == Reconcile(<<>>, dd, 0).updated
           refs == FreshRefs({}, Len(items))
       IN  IF fs.result = "missing"
           THEN /\ state = fs.state
                /\ heap = <<>>
           ELSE /\ state = CommitState(fs.state, refs, 0)
                /\ heap = [r \in 1..Len(items) |-> items[r]]

\* ---------------------------------------------------------- scan_once(t)
\* line 129: with self._lock
Acquire1(t) ==
  /\ pc[t] = "idle"
  /\ lock = "free"
  /\ lock' = t
  /\ pc' = [pc EXCEPT ![t] = "cs1"]
  /\ UNCHANGED <<state, heap, loc, docDisk, polDisk, polBad, clock>>

\* A mutant of Check: a call that goes on to detection keeps the lock.
Check_KeepsLock(t) ==
  /\ pc[t] = "cs1"
  /\ LET fs == FirstSection(state, Force(t), polDisk, polBad, docDisk, clock)
       IN  /\ state' = fs.state
           /\ IF fs.result = "due"
              THEN /\ pc' = [pc EXCEPT ![t] = "scan"]
                   /\ loc' = [loc EXCEPT ![t] =
                                [NoLoc EXCEPT !.existing = state.violations]]
                   /\ lock' = t
              ELSE /\ pc' = [pc EXCEPT ![t] = "idle"]
                   /\ loc' = loc
                   /\ lock' = "free"
  /\ UNCHANGED <<heap, docDisk, polDisk, polBad, clock>>

\* lines 130-151, and the lock released at the end of the with block
Check(t) ==
  /\ pc[t] = "cs1"
  /\ LET fs == FirstSection(state, Force(t), polDisk, polBad, docDisk, clock)
       IN  /\ state' = fs.state
           /\ IF fs.result = "due"
              THEN /\ pc' = [pc EXCEPT ![t] = "scan"]
                   /\ loc' = [loc EXCEPT ![t] =
                                [NoLoc EXCEPT !.existing = state.violations]]
              ELSE /\ pc' = [pc EXCEPT ![t] = "idle"]
                   /\ loc' = loc
  /\ lock' = "free"
  /\ UNCHANGED <<heap, docDisk, polDisk, polBad, clock>>

\* line 154 raises: the document was removed after the check.  The background
\* loop catches it (line 118); a request handler ends with it.
ReadFails(t) ==
  /\ pc[t] = "scan"
  /\ docDisk = None
  /\ pc' = [pc EXCEPT ![t] = IF t = "bg" THEN "exc" ELSE "idle"]
  /\ loc' = [loc EXCEPT ![t] = NoLoc]
  /\ heap' = Collect(heap, state, loc')
  /\ UNCHANGED <<state, lock, docDisk, polDisk, polBad, clock>>

\* lines 154-184 and 583-590, outside the lock: the document is read, the
\* detection pipeline returns a list, _reconcile reads the clock and indexes
\* the list
Detect(t, dicts) ==
  /\ pc[t] = "scan"
  /\ docDisk # None
  /\ \E dd \in dicts :
       loc' = [loc EXCEPT ![t].dd = dd, ![t].now = clock, ![t].idx = 1]
  /\ pc' = [pc EXCEPT ![t] = "rec1"]
  /\ UNCHANGED <<state, heap, lock, docDisk, polDisk, polBad, clock>>

\* lines 600-615 or 600-630 for the next existing entry, in place and outside
\* the lock: status is read, the entry is marked seen, status is written
RecOld1(t) ==
  /\ pc[t] = "rec1"
  /\ loc[t].idx <= Len(loc[t].existing)
  /\ LET r == loc[t].existing[loc[t].idx]
         old == heap[r]
         inD == StrId(old.id) \in DetKeySet(loc[t].dd)
         seen == MarkSeen(old, loc[t].now)
     IN  /\ heap' = [heap EXCEPT ![r] =
                       IF ~HasId(old) THEN old
                       ELSE IF inD
                       THEN (IF old.status = "RESOLVED" THEN ReopenStatus(seen) ELSE seen)
                       ELSE (IF old.status # "RESOLVED" THEN ResolveStatus(old) ELSE old)]
         /\ loc' = [loc EXCEPT ![t].status = old.status]
  /\ pc' = [pc EXCEPT ![t] = "rec2"]
  /\ UNCHANGED <<state, lock, docDisk, polDisk, polBad, clock>>

\* lines 616-626 or 631-634 for the same entry: resolvedAtIso is written, the
\* details are updated, the entry is appended to updated
RecOld2(t) ==
  /\ pc[t] = "rec2"
  /\ LET r == loc[t].existing[loc[t].idx]
         old == heap[r]
         inD == StrId(old.id) \in DetKeySet(loc[t].dd)
         opened == IF loc[t].status = "RESOLVED" THEN ReopenClear(old) ELSE old
     IN  /\ heap' = [heap EXCEPT ![r] =
                       IF ~HasId(old) THEN old
                       ELSE IF inD
                       THEN UpdateDetails(opened, Lookup(loc[t].dd, StrId(old.id)))
                       ELSE (IF loc[t].status # "RESOLVED"
                             THEN ResolveAt(old, loc[t].now) ELSE old)]
         /\ loc' = [loc EXCEPT ![t].status = "none",
                               ![t].idx = @ + 1,
                               ![t].updated = IF HasId(old) THEN Append(@, r) ELSE @]
  /\ pc' = [pc EXCEPT ![t] = "rec1"]
  /\ UNCHANGED <<state, lock, docDisk, polDisk, polBad, clock>>

\* lines 637-649: the new items, fresh dicts, inserted at the front of updated
RecNew(t) ==
  /\ pc[t] = "rec1"
  /\ loc[t].idx > Len(loc[t].existing)
  /\ LET items == NewLoop(loc[t].dd, View(loc[t].existing, heap), loc[t].now)
         refs == FreshRefs(DOMAIN heap, Len(items))
         l2 == [loc EXCEPT ![t] = [NoLoc EXCEPT !.updated = refs \o loc[t].updated]]
     IN  /\ loc' = l2
         /\ heap' = Collect([r \in DOMAIN heap \cup {refs[i] : i \in 1..Len(refs)} |->
                               IF r \in DOMAIN heap THEN heap[r]
                               ELSE items[CHOOSE i \in 1..Len(refs) : refs[i] = r]],
                            state, l2)
  /\ pc' = [pc EXCEPT ![t] = "ready"]
  /\ UNCHANGED <<state, lock, docDisk, polDisk, polBad, clock>>

\* line 187: with self._lock
Acquire2(t) ==
  /\ pc[t] = "ready"
  /\ lock = "free"
  /\ lock' = t
  /\ pc' = [pc EXCEPT ![t] = "cs2"]
  /\ UNCHANGED <<state, heap, loc, docDisk, polDisk, polBad, clock>>

\* lines 188-190, and the lock released
Commit(t) ==
  /\ pc[t] = "cs2"
  /\ state' = CommitState(state, loc[t].updated, clock)
  /\ loc' = [loc EXCEPT ![t] = NoLoc]
  /\ heap' = Collect(heap, state', loc')
  /\ lock' = "free"
  /\ pc' = [pc EXCEPT ![t] = "idle"]
  /\ UNCHANGED <<docDisk, polDisk, polBad, clock>>

\* line 119 of the background loop's handler: with self._lock
ExcAcquire ==
  /\ pc["bg"] = "exc"
  /\ lock = "free"
  /\ lock' = "bg"
  /\ pc' = [pc EXCEPT !["bg"] = "cs_exc"]
  /\ UNCHANGED <<state, heap, loc, docDisk, polDisk, polBad, clock>>

\* A mutant of ExcRecord: the loop ends after recording the error.
ExcRecord_Ends ==
  /\ pc["bg"] = "cs_exc"
  /\ state' = [state EXCEPT !.last_scan_error = "exception"]
  /\ lock' = "free"
  /\ pc' = [pc EXCEPT !["bg"] = "ended"]
  /\ UNCHANGED <<heap, loc, docDisk, polDisk, polBad, clock>>

\* line 120, and the lock released; the loop then waits and calls again
ExcRecord ==
  /\ pc["bg"] = "cs_exc"
  /\ state' = [state EXCEPT !.last_scan_error = "exception"]
  /\ lock' = "free"
  /\ pc' = [pc EXCEPT !["bg"] = "idle"]
  /\ UNCHANGED <<heap, loc, docDisk, polDisk, polBad, clock>>

\* app.py line 63: with scanner._lock
ReaderAcquire ==
  /\ pc["rd"] = "idle"
  /\ lock = "free"
  /\ lock' = "rd"
  /\ pc' = [pc EXCEPT !["rd"] = "reading"]
  /\ UNCHANGED <<state, heap, loc, docDisk, polDisk, polBad, clock>>

\* app.py line 64, and the lock released
ReaderRelease ==
  /\ pc["rd"] = "reading"
  /\ lock' = "free"
  /\ pc' = [pc EXCEPT !["rd"] = "idle"]
  /\ UNCHANGED <<state, heap, loc, docDisk, polDisk, polBad, clock>>

\* ----------------------------------------------------------- environment
\* time.gmtime() moves on
Tick ==
  /\ clock < MaxTime
  /\ clock' = clock + 1
  /\ UNCHANGED <<state, heap, lock, pc, loc, docDisk, polDisk, polBad>>

\* the monitored document is written, or replaced by a file of any mtime
TouchDoc ==
  /\ \E m \in 0..MaxMtime : m # docDisk /\ docDisk' = m
  /\ UNCHANGED <<state, heap, lock, pc, loc, polDisk, polBad, clock>>

\* the monitored document is removed
RemoveDoc ==
  /\ docDisk # None
  /\ docDisk' = None
  /\ UNCHANGED <<state, heap, lock, pc, loc, polDisk, polBad, clock>>

\* a policy file is written, added or removed, leaving some file
TouchPolicies ==
  /\ \E m \in 0..MaxMtime : m # polDisk /\ polDisk' = m
  /\ UNCHANGED <<state, heap, lock, pc, loc, docDisk, polBad, clock>>

\* the last policy file is removed
RemovePolicies ==
  /\ polDisk # None
  /\ polDisk' = None
  /\ polBad' = FALSE
  /\ UNCHANGED <<state, heap, lock, pc, loc, docDisk, clock>>

\* a policy file becomes unreadable, or readable again
ChmodPolicies ==
  /\ polDisk # None
  /\ polBad' = ~polBad
  /\ UNCHANGED <<state, heap, lock, pc, loc, docDisk, polDisk, clock>>

\* whether the files are as the background loop's last call found them, with
\* no other call since
QuietNext ==
  quiet' = IF docDisk' # docDisk \/ polDisk' # polDisk \/ polBad' # polBad THEN FALSE
           ELSE IF pc["od"] # pc'["od"] THEN FALSE
           ELSE IF pc["bg"] = "cs1" /\ pc'["bg"] # "cs1" THEN TRUE
           ELSE quiet

\* Spec: the scan cycles of the background loop and of a request handler and
\* the reader, over a document that is written and removed and a policy
\* directory that stays as it is.
Frame == UNCHANGED <<ledger, calls, quiet>>

Init == SInit(ScanDicts, {0}, {0}) /\ ledger = <<>> /\ calls = <<>>

Next ==
  \/ \E t \in Scanners : Acquire1(t) /\ Frame
  \/ \E t \in Scanners : Check(t) /\ Frame
  \/ \E t \in Scanners : ReadFails(t) /\ Frame
  \/ \E t \in Scanners : Detect(t, ScanDicts) /\ Frame
  \/ \E t \in Scanners : RecOld1(t) /\ Frame
  \/ \E t \in Scanners : RecOld2(t) /\ Frame
  \/ \E t \in Scanners : RecNew(t) /\ Frame
  \/ \E t \in Scanners : Acquire2(t) /\ Frame
  \/ \E t \in Scanners : Commit(t) /\ Frame
  \/ ExcAcquire /\ Frame
  \/ ExcRecord /\ Frame
  \/ ReaderAcquire /\ Frame
  \/ ReaderRelease /\ Frame
  \/ Tick /\ Frame
  \/ TouchDoc /\ Frame
  \/ RemoveDoc /\ Frame

Spec == Init /\ [][Next]_vars

\* SpecGate: calls of scan_once one after the other, forced or not, over a
\* document and a policy directory that change in every way, with the
\* detection reduced to one identity found or not.
GateDicts == {<<>>, <<Plain(StrIdOf("7"), "t1", "low")>>}

Other(t) == IF t = "bg" THEN "od" ELSE "bg"

\* a step of a call made while no other call is under way
Alone(t) == pc[Other(t)] = "idle"

GateFrame == QuietNext /\ UNCHANGED <<ledger, calls>>

GateInit == SInit(GateDicts, {None, 0}, {None, 0}) /\ ledger = <<>> /\ calls = <<>>

GateNext ==
  \/ \E t \in Scanners : Alone(t) /\ Acquire1(t) /\ GateFrame
  \/ \E t \in Scanners : Alone(t) /\ Check(t) /\ GateFrame
  \/ \E t \in Scanners : Alone(t) /\ ReadFails(t) /\ GateFrame
  \/ \E t \in Scanners : Alone(t) /\ Detect(t, GateDicts) /\ GateFrame
  \/ \E t \in Scanners : Alone(t) /\ RecOld1(t) /\ GateFrame
  \/ \E t \in Scanners : Alone(t) /\ RecOld2(t) /\ GateFrame
  \/ \E t \in Scanners : Alone(t) /\ RecNew(t) /\ GateFrame
  \/ \E t \in Scanners : Alone(t) /\ Acquire2(t) /\ GateFrame
  \/ \E t \in Scanners : Alone(t) /\ Commit(t) /\ GateFrame
  \/ ExcAcquire /\ GateFrame
  \/ ExcRecord /\ GateFrame
  \/ Tick /\ GateFrame
  \/ TouchDoc /\ GateFrame
  \/ RemoveDoc /\ GateFrame
  \/ TouchPolicies /\ GateFrame
  \/ RemovePolicies /\ GateFrame
  \/ ChmodPolicies /\ GateFrame

SpecGate == GateInit /\ [][GateNext]_vars

\* ------------------------------------------- _reconcile, called repeatedly
CallSummary(existing, dd, r) ==
  [openBefore |-> OpenKeys(existing), det |-> DetKeySet(dd),
   resolvedKeys |-> r.resolvedKeys, reopenedKeys |-> r.reopenedKeys,
   resolved |-> r.diff.resolved, reopened |-> r.diff.reopened]

LastTwo(s) == IF Len(s) > 2 THEN Tail(s) ELSE s

\* an empty ledger, no thread running
RInit ==
  /\ ledger = <<>>
  /\ clock = 0
  /\ calls = <<>>
  /\ state = [violations |-> <<>>, policies |-> LoadedPolicies(None, 0),
              last_scan_iso |-> None, last_scan_error |-> "none",
              doc_mtime |-> None, policies_mtime |-> None]
  /\ heap = <<>>
  /\ lock = "free"
  /\ pc = [t \in Threads |-> "idle"]
  /\ loc = [t \in Scanners |-> NoLoc]
  /\ docDisk = None
  /\ polDisk = None
  /\ polBad = FALSE
  /\ quiet = FALSE

\* updated, diff = self._reconcile(existing=ledger, detected_open=D), for any
\* list D of candidates
RReconcile ==
  /\ \E dd \in DetDicts :
       LET r == Reconcile(ledger, dd, clock)
       IN  /\ ledger' = r.updated
           /\ calls' = LastTwo(Append(calls, CallSummary(ledger, dd, r)))
  /\ UNCHANGED <<clock, svars, gvars>>

\* time.gmtime() moves on
RTick ==
  /\ clock < MaxTime
  /\ clock' = clock + 1
  /\ UNCHANGED <<ledger, calls, svars, gvars>>

RNext == RReconcile \/ RTick

SpecReconcile == RInit /\ [][RNext]_vars

\* ------------------------------- _reconcile, given lists that repeat an id
\* updated, diff = self._reconcile(existing=ledger, detected_open=D), noting
\* whether D named more than once an id the ledger did not hold
DReconcile ==
  /\ \E o \in DetOutcomes :
       /\ ledger' = Reconcile(ledger, o.dd, clock).updated
       /\ calls' = <<[dupNew |-> o.dupKeys \ ExistingKeys(ledger) # {}]>>
  /\ UNCHANGED <<clock, svars, gvars>>

DNext == DReconcile \/ RTick

SpecRepeats == RInit /\ [][DNext]_vars

\* ------------------------------------------------------------------ claims
EntryOf(L, key) == L[CHOOSE i \in 1..Len(L) : StrId(L[i].id) = key]

NoCounts(diff) ==
  /\ diff.changed = FALSE
  /\ diff.new = 0
  /\ diff.reopened = 0
  /\ diff.resolved = 0

\* The second of two calls on one detection: _reconcile(L1, D) at time t,
\* where L1 is what _reconcile(ledger, D) returns now.
SecondRun(dd, t) == Reconcile(Reconcile(ledger, dd, clock).updated, dd, t)

\* C1 as stated: for the ledger L at hand and every detection list D, when
\* _reconcile(L, D) returns L1, a second call _reconcile(L1, D), at the same or
\* any later time, reports no change and returns L1 identical in every field
\* of every entry.
C1_Original ==
  \A dd \in DetDicts : \A t \in clock..MaxTime :
    /\ NoCounts(SecondRun(dd, t).diff)
    /\ SecondRun(dd, t).updated = Reconcile(ledger, dd, clock).updated

\* C1 as amended: the second call reports changed = false and new = reopened =
\* resolved = 0, and returns the same entries in the same order, equal in
\* every field except lastSeenIso, which for an entry whose id is in D is the
\* time of the second call, and firstSeenIso, which differs only where it was
\* null and the entry's id is in D.
C1_Idempotent ==
  \A dd \in DetDicts : \A t \in clock..MaxTime :
    LET L1 == Reconcile(ledger, dd, clock).updated
        r2 == SecondRun(dd, t)
    IN  /\ NoCounts(r2.diff)
        /\ Len(r2.updated) = Len(L1)
        /\ \A i \in 1..Len(L1) :
             LET a == L1[i]
                 b == r2.updated[i]
                 inD == StrId(a.id) \in DetKeySet(dd)
             IN  /\ [b EXCEPT !.lastSeenIso = a.lastSeenIso,
                              !.firstSeenIso = a.firstSeenIso] = a
                 /\ b.lastSeenIso = IF inD THEN t ELSE a.lastSeenIso
                 /\ b.firstSeenIso # a.firstSeenIso => inD /\ a.firstSeenIso = None

\* C1 witness: calls have built a ledger with an OPEN and a RESOLVED entry, one
\* of them with changed wording, and the clock can still move on, so that the
\* two runs meet the persist, resolve, reopen and create cases.
C1_Witness ==
  /\ Len(calls) = 2
  /\ clock < MaxTime
  /\ \E i, j \in 1..Len(ledger) :
       /\ ledger[i].status = "OPEN"
       /\ ledger[j].status = "RESOLVED"
       /\ ledger[i].desc["title"] = "t2"

\* C7: an identity that was OPEN, then absent from one call's detection set
\* and present in the next call's, is OPEN with resolvedAtIso null; the first
\* call counted it once in resolved and not in reopened, the second call
\* counted it once in reopened (each counter is the number of entries counted).
C7_ResolveReopen ==
  Len(calls) = 2 =>
    /\ \A c \in 1..2 :
         /\ calls[c].resolved = Cardinality(calls[c].resolvedKeys)
         /\ calls[c].reopened = Cardinality(calls[c].reopenedKeys)
    /\ \A X \in calls[1].openBefore :
         (X \notin calls[1].det /\ X \in calls[2].det) =>
           /\ \E i \in 1..Len(ledger) : StrId(ledger[i].id) = X
           /\ EntryOf(ledger, X).status = "OPEN"
           /\ EntryOf(ledger, X).resolvedAtIso = None
           /\ X \in calls[1].resolvedKeys
           /\ X \notin calls[1].reopenedKeys
           /\ X \in calls[2].reopenedKeys
           /\ X \notin calls[2].resolvedKeys

\* C7 witness: the two calls have happened to an identity that was OPEN,
\* with another entry resolved by the first call as well.
C7_Witness ==
  /\ Len(calls) = 2
  /\ \E X \in calls[1].openBefore :
       X \notin calls[1].det /\ X \in calls[2].det
  /\ calls[1].resolved = 2

\* every thread is between calls
Quiescent == \A t \in Threads : pc[t] = "idle"

\* the scan cycles between their ledger snapshot (line 150) and their commit
InCycle == {t \in Scanners : pc[t] \in {"scan", "rec1", "rec2", "ready", "cs2"}}

\* C2: at most one scan cycle at a time is between taking its ledger snapshot
\* and committing its updated ledger.
C2_OneCycleAtATime == Cardinality(InCycle) <= 1

\* C3: a reader that holds the state lock sees only entries as a committed
\* reconciliation left them: no entry carries a lastSeenIso or a resolvedAtIso
\* later than the last-scan timestamp it reads in the same critical section.
C3_AtomicForReaders ==
  pc["rd"] = "reading" =>
    \A i \in 1..Len(LedgerView) :
      /\ LedgerView[i].lastSeenIso <= state.last_scan_iso
      /\ LedgerView[i].resolvedAtIso <= state.last_scan_iso

\* C4: an id that is in the committed ledger is in it after every step.
C4_HistoryKept ==
  [][\A i \in 1..Len(LedgerView) :
       \E j \in 1..Len(LedgerView') :
         StrId(LedgerView'[j].id) = StrId(LedgerView[i].id)]_vars

\* C5: whenever no call is under way, every violation in the ledger has
\* resolvedAtIso non-null if and only if its status is RESOLVED.
C5_ResolvedAtIffResolved ==
  Quiescent =>
    \A i \in 1..Len(LedgerView) :
      (LedgerView[i].resolvedAtIso # None) <=> (LedgerView[i].status = "RESOLVED")

\* C6: no two entries of a ledger reached from the empty ledger by _reconcile
\* calls have the same id, whatever the lists held (repeated ids included).
C6_UniqueIds ==
  \A i, j \in 1..Len(ledger) :
    i # j => /\ ledger[i].id # ledger[j].id
             /\ StrId(ledger[i].id) # StrId(ledger[j].id)

\* C6 witness: the last call was given a list that named twice an id the
\* ledger did not hold, and the ledger now holds two entries.
C6_Witness ==
  /\ calls # <<>>
  /\ calls[1].dupNew
  /\ Len(ledger) = 2

\* C8: when the background loop calls scan_once(force=False) again with the
\* document present and no file changed since its last call, the call ends in
\* its first critical section: no detection, no field of the scan state changed.
C8_DueGating ==
  [][(quiet /\ docDisk # None /\ pc["bg"] = "cs1" /\ pc'["bg"] # "cs1") =>
       (pc'["bg"] = "idle" /\ state' = state /\ heap' = heap)]_vars

\* C9: a scan_once call, forced or not, that finds the document missing sets
\* last_scan_error, records the scan time, leaves the ledger, its entries and
\* the document signal as they are, releases the lock, and returns without
\* detection and without raising.
C9_MissingDoc ==
  [][\A t \in Scanners :
       (pc[t] = "cs1" /\ pc'[t] # "cs1" /\ docDisk = None) =>
         /\ state'.last_scan_error # "none"
         /\ state'.last_scan_iso = clock
         /\ state'.violations = state.violations
         /\ heap' = heap
         /\ state'.doc_mtime = state.doc_mtime
         /\ lock' = "free"
         /\ pc'[t] = "idle"]_vars

\* C9 witness: a call has just found the document missing, after scans that
\* left a ledger entry, a document signal and an earlier scan time.
C9_Witness ==
  /\ Quiescent
  /\ docDisk = None
  /\ state.last_scan_error = "missing"
  /\ state.last_scan_iso = clock
  /\ clock > 0
  /\ state.violations # <<>>
  /\ state.doc_mtime # None
  /\ \E i \in 1..Len(LedgerView) : LedgerView[i].lastSeenIso < clock

\* C10: the scan state and the ledger's entries change only in steps taken
\* while the state lock is held.
C10_WritesUnderLock ==
  [][(state' # state \/ LedgerView' # LedgerView) => lock # "free"]_vars

\* --------------------------------------- the background loop, scheduled fairly
\* SpecLoop: the background loop and the reader, over a document that is
\* written and removed.  A thread that can take a step takes one in the end,
\* the lock goes in the end to a thread that keeps asking for it, and the
\* stop event is never set.
BgStep ==
  \/ Acquire1("bg") \/ Check("bg") \/ ReadFails("bg") \/ Detect("bg", ScanDicts)
  \/ RecOld1("bg") \/ RecOld2("bg") \/ RecNew("bg") \/ Acquire2("bg") \/ Commit("bg")
  \/ ExcAcquire \/ ExcRecord

LoopNext ==
  \/ Acquire1("bg") /\ Frame
  \/ Check("bg") /\ Frame
  \/ ReadFails("bg") /\ Frame
  \/ Detect("bg", ScanDicts) /\ Frame
  \/ RecOld1("bg") /\ Frame
  \/ RecOld2("bg") /\ Frame
  \/ RecNew("bg") /\ Frame
  \/ Acquire2("bg") /\ Frame
  \/ Commit("bg") /\ Frame
  \/ ExcAcquire /\ Frame
  \/ ExcRecord /\ Frame
  \/ ReaderAcquire /\ Frame
  \/ ReaderRelease /\ Frame
  \/ Tick /\ Frame
  \/ TouchDoc /\ Frame
  \/ RemoveDoc /\ Frame

SpecLoop ==
  /\ Init
  /\ [][LoopNext]_vars
  /\ SF_vars(BgStep /\ Frame)
  /\ WF_vars(ReaderRelease /\ Frame)

\* C11: in every state in which a scan cycle is in its detecting step, that
\* cycle does not hold the state lock.
C11_NoLockWhileDetecting ==
  \A t \in Scanners : pc[t] = "scan" => lock # t

\* C11 witness: a cycle is in its detecting step while another thread holds
\* the lock.
C11_Witness ==
  \E t \in Scanners : pc[t] = "scan" /\ lock \notin {"free", t}

\* C12: the background loop begins and ends cycles again and again; a cycle
\* that raised leads to the loop idle again with last_scan_error set to the
\* exception's message, and that message is written with the lock held by
\* the loop.
C12_LoopContinues ==
  /\ []<>(pc["bg"] = "cs1")
  /\ []<>(pc["bg"] = "idle")
  /\ (pc["bg"] = "exc") ~> (pc["bg"] = "idle" /\ state.last_scan_error = "exception")
  /\ [][(pc["bg"] = "cs_exc" /\ pc'["bg"] # "cs_exc") =>
          (lock = "bg" /\ state'.last_scan_error = "exception")]_vars

\* C12 witness: a new cycle of the loop is in its first critical section with
\* the error of a cycle that raised still recorded.
C12_Witness ==
  /\ pc["bg"] = "cs1"
  /\ state.last_scan_error = "exception"

\* ------------------------------------------------- the detection pipeline
\* What the heuristic detector looks for in the document; two of its four
\* signals are modelled, in the order of its tests.
Signals == {"pii", "link"}

Docs == SUBSET Signals

\* _heuristic_violations: one fixed candidate per signal found
HeuristicViolations(doc) ==
  (IF "pii" \in doc THEN <<Plain(StrIdOf("b-001"), "t1", "medium")>> ELSE <<>>)
  \o (IF "link" \in doc THEN <<Plain(StrIdOf("b-002"), "t2", "high")>> ELSE <<>>)

\* An element of the array the model's JSON holds: an object, or something
\* else (a string, a number).
Item(isDict, v) == [dict |-> isDict, v |-> v]

RawItems ==
  { Item(TRUE, Plain(StrIdOf("7"), "t1", "low")),
    Item(TRUE, Plain(NoneId, "t1", "low")),
    Item(FALSE, Plain(NoneId, NoneStr, NoneStr)) }

RawLists == SeqsUpTo(RawItems, MaxDetLen)

\* What the chat completion call can come to: it raises (error, timeout); its
\* content is not JSON; the JSON is neither an object nor an array; an object
\* whose "violations" is missing, is not a list, or is a list; an array.
Responses ==
  {[kind |-> k, items |-> <<>>] :
     k \in {"raises", "unparsable", "scalar", "object_without", "object_notlist"}}
  \cup {[kind |-> k, items |-> l] : k \in {"object", "array"}, l \in RawLists}

\* lines 544-547: the objects among the items
RECURSIVE DictsOf(_)
DictsOf(l) ==
  IF l = <<>> THEN <<>>
  ELSE (IF Head(l).dict THEN <<Head(l).v>> ELSE <<>>) \o DictsOf(Tail(l))

\* _openai_violations, lines 500-572: whether it raises, and what it returns
OpenaiViolations(resp) ==
  IF resp.kind = "raises" THEN [raised |-> TRUE, out |-> <<>>]
  ELSE IF resp.kind \in {"unparsable", "scalar", "object_without", "object_notlist"}
       THEN [raised |-> FALSE, out |-> <<>>]
  ELSE [raised |-> FALSE, out |-> DictsOf(resp.items)]

\* _analyze, lines 230-242
Analyze(hasKey, doc, resp) ==
  IF ~hasKey THEN HeuristicViolations(doc)
  ELSE LET llm == OpenaiViolations(resp)
       IN  IF llm.raised THEN HeuristicViolations(doc) ELSE llm.out

\* detected_open = self._analyze(...), for any credential, document and
\* response of the model
AnalyzeCall ==
  /\ \E hasKey \in BOOLEAN, doc \in Docs, resp \in Responses :
       calls' = <<[hasKey |-> hasKey, doc |-> doc, resp |-> resp,
                   result |-> Analyze(hasKey, doc, resp)]>>
  /\ UNCHANGED <<ledger, clock, svars, gvars>>

ANext == AnalyzeCall \/ RTick

SpecAnalyze == RInit /\ [][ANext]_vars

\* the semantic detector failed: the call raised, or the response is not the
\* JSON asked for
Failed(resp) ==
  \/ resp.kind \in {"raises", "unparsable", "scalar", "object_without", "object_notlist"}
  \/ \E i \in 1..Len(resp.items) : ~resp.items[i].dict

PlaceOf(L, key) == CHOOSE i \in 1..Len(L) : StrId(L[i].id) = key

C15_FirstBeforeLast ==
  \A i \in 1..Len(ledger) :
    (ledger[i].firstSeenIso # None /\ ledger[i].lastSeenIso # None) =>
      ledger[i].firstSeenIso <= ledger[i].lastSeenIso

\* C16: a _reconcile call leaves every entry that was in the ledger in it with
\* the same id, the same read flag, the same createdAtIso, and the same
\* firstSeenIso if that was set.
C16_StableFields ==
  [][\A i \in 1..Len(ledger) :
       \E j \in 1..Len(ledger') :
         /\ ledger'[j].id = ledger[i].id
         /\ ledger'[j].read = ledger[i].read
         /\ ledger'[j].createdAtIso = ledger[i].createdAtIso
         /\ ledger[i].firstSeenIso # None =>
              ledger'[j].firstSeenIso = ledger[i].firstSeenIso]_vars

\* C16 witness: an entry created under the id "7" was seen again at a later
\* time under the id 7 with another title, and is still "7".
C16_Witness ==
  \E i \in 1..Len(ledger) :
    /\ ledger[i].id = StrIdOf("7")
    /\ ledger[i].desc["title"] = "t2"
    /\ ledger[i].firstSeenIso < ledger[i].lastSeenIso

\* C17: in the list _reconcile returns an entry is OPEN exactly if its id is
\* detected; an existing entry not detected and not RESOLVED is RESOLVED with
\* resolvedAtIso = now, one not detected and RESOLVED is as it was in every
\* field, and one detected and RESOLVED is OPEN with resolvedAtIso null.
C17_StatusFollowsDetection ==
  \A dd \in DetDicts :
    LET r == Reconcile(ledger, dd, clock).updated
    IN  /\ \A j \in 1..Len(r) :
             (r[j].status = "OPEN") <=> (StrId(r[j].id) \in DetKeySet(dd))
        /\ \A i \in 1..Len(ledger) :
             LET old == ledger[i]
                 new == EntryOf(r, StrId(old.id))
             IN  /\ (StrId(old.id) \notin DetKeySet(dd) /\ old.status # "RESOLVED") =>
                      (new.status = "RESOLVED" /\ new.resolvedAtIso = clock)
                 /\ (StrId(old.id) \notin DetKeySet(dd) /\ old.status = "RESOLVED") =>
                      new = old
                 /\ (StrId(old.id) \in DetKeySet(dd) /\ old.status = "RESOLVED") =>
                      (new.status = "OPEN" /\ new.resolvedAtIso = None)

\* C17 witness: the last call resolved one entry and reopened another, after
\* the clock had moved.
C17_Witness ==
  /\ Len(calls) = 2
  /\ calls[2].resolvedKeys # {}
  /\ calls[2].reopenedKeys # {}
  /\ clock > 0

\* C18: every entry _reconcile creates has status OPEN, firstSeenIso =
\* lastSeenIso = createdAtIso = now, read false and resolvedAtIso null,
\* whatever the candidate carried, and new counts each of them once.
C18_NewEntryFields ==
  \A dd \in DetDicts :
    LET rec == Reconcile(ledger, dd, clock)
        r == rec.updated
        fresh == {j \in 1..Len(r) : StrId(r[j].id) \notin ExistingKeys(ledger)}
    IN  /\ rec.diff.new = Cardinality(fresh)
        /\ \A j \in fresh :
             /\ r[j].status = "OPEN"
             /\ r[j].firstSeenIso = clock
             /\ r[j].lastSeenIso = clock
             /\ r[j].createdAtIso = clock
             /\ r[j].read = FALSE
             /\ r[j].resolvedAtIso = None

\* C19: whenever the newest modification time of the policy files equals the
\* one stored at the last load (both may be None), _load_policies_from_disk(
\* force=False) returns False and leaves policies and _policies_mtime as
\* they are.
C19_UnchangedSignalNoReload ==
  polDisk = state.policies_mtime =>
    LET lp == LoadPolicies(state, FALSE, polDisk, polBad, clock)
    IN  /\ ~lp.changed
        /\ lp.state.policies = state.policies
        /\ lp.state.policies_mtime = state.policies_mtime

\* C20: a non-forced call that finds the document present with a modification
\* time different from the recorded one goes on to detection.
C20_DifferentSignalIsScanned ==
  [][(pc["bg"] = "cs1" /\ pc'["bg"] # "cs1"
      /\ docDisk # None /\ docDisk # state.doc_mtime) =>
       pc'["bg"] = "scan"]_vars

\* ------------------------------------------ heuristic-only scan cycles
\* What the document holds for each signal: nothing ("no"), or a match whose
\* text goes into the candidate's evidence ("x", "y": two different matches).
Texts == [Signals -> {"no", "x", "y"}]

SignalsIn(text) == {g \in Signals : text[g] # "no"}

\* the fixed id of each rule (lines 279, 296)
RuleId(g) == IF g = "pii" THEN "b-001" ELSE "b-002"

\* A mutant of HeuristicFor: the id is derived from the text matched.
HeuristicFor_IdFromMatch(text, existingOpen) ==
  (IF text["pii"] # "no"
   THEN <<Plain(StrIdOf(RuleId("pii") \o text["pii"]), text["pii"], "medium")>> ELSE <<>>)
  \o (IF text["link"] # "no"
      THEN <<Plain(StrIdOf(RuleId("link")), "t2", "high")>> ELSE <<>>)

\* _heuristic_violations(doc_text, policies, existing_open), lines 273-344: the
\* first rule's candidate carries the text matched in its details (here the
\* title stands for them), the second is the same whatever matched; the ids
\* of existing_open are read (line 274) and change nothing (line 279)
HeuristicFor(text, existingOpen) ==
  (IF text["pii"] # "no"
   THEN <<Plain(StrIdOf(IF RuleId("pii") \in OpenKeys(existingOpen)
                        THEN RuleId("pii") ELSE RuleId("pii")),
                text["pii"], "medium")>>
   ELSE <<>>)
  \o (IF text["link"] # "no"
      THEN <<Plain(StrIdOf(RuleId("link")), "t2", "high")>> ELSE <<>>)

\* existing_open of line 151
ExistingOpen(L) == SelectSeq(L, LAMBDA v : v.status = "OPEN")

\* a scan cycle without credential, on any document: _analyze gives the
\* heuristic candidates, _reconcile the new ledger
HReconcile ==
  /\ \E text \in Texts :
       LET det == HeuristicFor(text, ExistingOpen(ledger))
       IN  /\ ledger' = Reconcile(ledger, DetectedById(det), clock).updated
           /\ calls' = <<[matched |-> SignalsIn(text)]>>
  /\ UNCHANGED <<clock, svars, gvars>>

HNext == HReconcile \/ RTick

SpecHeuristic == RInit /\ [][HNext]_vars

Poll(t) ==
  /\ pc[t] = "cs1"
  /\ LET fs == FirstSection(state, FALSE, polDisk, polBad, docDisk, clock)
       IN  /\ state' = fs.state
           /\ IF fs.result = "due"
              THEN /\ pc' = [pc EXCEPT ![t] = "scan"]
                   /\ loc' = [loc EXCEPT ![t] =
                                [NoLoc EXCEPT !.existing = state.violations]]
              ELSE /\ pc' = [pc EXCEPT ![t] = "idle"]
                   /\ loc' = loc
  /\ lock' = "free"
  /\ UNCHANGED <<heap, docDisk, polDisk, polBad, clock>>

NoPolls == [due |-> 0, skipped |-> {}]

PollFrame ==
  /\ calls' =
       IF docDisk' # docDisk THEN NoPolls
       ELSE IF \E t \in Scanners : pc[t] = "cs1" /\ pc'[t] = "scan"
       THEN [calls EXCEPT !.due = @ + 1]
       ELSE IF \E t \in Scanners : pc[t] = "cs1" /\ pc'[t] = "idle"
       THEN [calls EXCEPT !.skipped =
               @ \cup {t \in Scanners : pc[t] = "cs1" /\ pc'[t] = "idle"}]
       ELSE calls
  /\ UNCHANGED <<ledger, quiet>>

PollInit == SInit(GateDicts, {0}, {0}) /\ ledger = <<>> /\ calls = NoPolls

PollNext ==
  \/ \E t \in Scanners : Acquire1(t) /\ PollFrame
  \/ \E t \in Scanners : Poll(t) /\ PollFrame
  \/ \E t \in Scanners : ReadFails(t) /\ PollFrame
  \/ \E t \in Scanners : Detect(t, GateDicts) /\ PollFrame
  \/ \E t \in Scanners : RecOld1(t) /\ PollFrame
  \/ \E t \in Scanners : RecOld2(t) /\ PollFrame
  \/ \E t \in Scanners : RecNew(t) /\ PollFrame
  \/ \E t \in Scanners : Acquire2(t) /\ PollFrame
  \/ \E t \in Scanners : Commit(t) /\ PollFrame
  \/ ExcAcquire /\ PollFrame
  \/ ExcRecord /\ PollFrame
  \/ Tick /\ PollFrame
  \/ TouchDoc /\ PollFrame
  \/ RemoveDoc /\ PollFrame

SpecPollers == PollInit /\ [][PollNext]_vars

\* C22: with the policies present and unchanged, at most one call of
\* scan_once(force=False) passes the due check between two changes of the
\* document on disk, however the calls of the two threads interleave.
C22_OneCyclePerChange == calls.due <= 1

\* C22 witness: since the document last changed, one call passed the due
\* check and is still in its cycle, and the other thread's call, made
\* meanwhile, returned at the check.
C22_Witness ==
  /\ calls.due = 1
  /\ calls.skipped = {"od"}
  /\ pc["bg"] \in {"scan", "rec1", "rec2", "ready"}
  /\ pc["od"] = "idle"
  /\ docDisk # None


\* ------------------------------------------- add_policy, delete_policy, the lock
Digit == <<"0", "1", "2", "3", "4", "5", "6", "7", "8", "9">>

\* str(n) of a natural
RECURSIVE IntStr(_)
IntStr(n) == IF n < 10 THEN Digit[n + 1] ELSE IntStr(n \div 10) \o Digit[(n % 10) + 1]

\* line 206
UploadedId(n) == "uploaded-" \o IntStr(n)

\* line 96: the id of the policy read from disk
DiskPolicyId == "gdpr"

\* the ids a DELETE /api/policies/<policy_id> request names
PolicyIds == {DiskPolicyId} \cup {UploadedId(n) : n \in 0..MaxTime}

\* POST /api/policies arrives (app.py lines 78-83)
UploadRequest ==
  /\ pc["rd"] = "idle"
  /\ Len(state.policies.up) < MaxUploads
  /\ pc' = [pc EXCEPT !["rd"] = "w_add"]
  /\ UNCHANGED <<state, heap, lock, loc, docDisk, polDisk, polBad, clock>>

\* line 205: with self._lock
AddAcquire ==
  /\ pc["rd"] = "w_add"
  /\ lock = "free"
  /\ lock' = "rd"
  /\ pc' = [pc EXCEPT !["rd"] = "adding"]
  /\ UNCHANGED <<state, heap, loc, docDisk, polDisk, polBad, clock>>

\* A mutant of AddPolicy: the lock is kept when the call returns.
AddPolicy_KeepsLock ==
  /\ pc["rd"] = "adding"
  /\ state' = [state EXCEPT !.policies.up = <<UploadedId(clock)>> \o @]
  /\ lock' = lock
  /\ pc' = [pc EXCEPT !["rd"] = "idle"]
  /\ UNCHANGED <<heap, loc, docDisk, polDisk, polBad, clock>>

\* lines 206-216, and the lock released
AddPolicy ==
  /\ pc["rd"] = "adding"
  /\ state' = [state EXCEPT !.policies.up = <<UploadedId(clock)>> \o @]
  /\ lock' = "free"
  /\ pc' = [pc EXCEPT !["rd"] = "idle"]
  /\ UNCHANGED <<heap, loc, docDisk, polDisk, polBad, clock>>

\* DELETE /api/policies/<policy_id> arrives (app.py lines 87-89)
DeleteRequest ==
  /\ pc["rd"] = "idle"
  /\ pc' = [pc EXCEPT !["rd"] = "w_del"]
  /\ UNCHANGED <<state, heap, lock, loc, docDisk, polDisk, polBad, clock>>

\* line 219: with self._lock
DelAcquire ==
  /\ pc["rd"] = "w_del"
  /\ lock = "free"
  /\ lock' = "rd"
  /\ pc' = [pc EXCEPT !["rd"] = "deleting"]
  /\ UNCHANGED <<state, heap, loc, docDisk, polDisk, polBad, clock>>

\* lines 220-222, and the lock released: every policy of that id leaves the
\* list
DeletePolicy ==
  /\ pc["rd"] = "deleting"
  /\ \E id \in PolicyIds :
       state' = [state EXCEPT
                   !.policies =
                     [src |-> IF id = DiskPolicyId THEN None ELSE @.src,
                      at |-> IF id = DiskPolicyId THEN None ELSE @.at,
                      up |-> SelectSeq(@.up, LAMBDA u : u # id)]]
  /\ lock' = "free"
  /\ pc' = [pc EXCEPT !["rd"] = "idle"]
  /\ UNCHANGED <<heap, loc, docDisk, polDisk, polBad, clock>>

\* SpecLock: the background loop and a request handler that reads the
\* violations, uploads policies and deletes policies, over a document that is
\* written and removed.  A thread that can take a step takes one in the end,
\* and the lock goes in the end to a thread that keeps asking for it; when
\* requests arrive is free.  The clock stands still: no lock operation reads
\* it, and the policies uploaded are those of one second.
HandlerStep ==
  \/ AddAcquire \/ AddPolicy \/ DelAcquire \/ DeletePolicy \/ ReaderRelease

LockNext ==
  \/ Acquire1("bg") /\ Frame
  \/ Check("bg") /\ Frame
  \/ ReadFails("bg") /\ Frame
  \/ Detect("bg", ScanDicts) /\ Frame
  \/ RecOld1("bg") /\ Frame
  \/ RecOld2("bg") /\ Frame
  \/ RecNew("bg") /\ Frame
  \/ Acquire2("bg") /\ Frame
  \/ Commit("bg") /\ Frame
  \/ ExcAcquire /\ Frame
  \/ ExcRecord /\ Frame
  \/ ReaderAcquire /\ Frame
  \/ ReaderRelease /\ Frame
  \/ UploadRequest /\ Frame
  \/ AddAcquire /\ Frame
  \/ AddPolicy /\ Frame
  \/ DeleteRequest /\ Frame
  \/ DelAcquire /\ Frame
  \/ DeletePolicy /\ Frame
  \/ TouchDoc /\ Frame
  \/ RemoveDoc /\ Frame

LockInit == SInit(ScanDicts, {0}, {0}) /\ ledger = <<>> /\ calls = <<>>

SpecLock ==
  /\ LockInit
  /\ [][LockNext]_vars
  /\ SF_vars(BgStep /\ Frame)
  /\ SF_vars(HandlerStep /\ Frame)

\* where a thread holds the lock, and where it waits for it
Inside == {"cs1", "cs2", "cs_exc", "reading", "adding", "deleting"}

Waiting(t) ==
  IF t = "bg" THEN pc[t] \in {"idle", "ready", "exc"}
  ELSE pc[t] \in {"w_add", "w_del"}

LockUsers == {"bg", "rd"}

\* C23: the lock is held by a thread exactly while that thread is inside one
\* of its with-blocks, so every way out of a block of scan_once, of the loop's
\* error handler, of add_policy and of delete_policy frees it; the lock is
\* taken only when it is free, by a thread that does not hold it; and a thread
\* that waits for the lock holds it in the end.
C23_LockReleased ==
  /\ [](\A t \in LockUsers : (lock = t) <=> (pc[t] \in Inside))
  /\ [][\A t \in LockUsers :
          /\ (pc[t] \in Inside /\ pc'[t] \notin Inside) => lock' = "free"
          /\ (lock # t /\ lock' = t) => (lock = "free" /\ pc[t] \notin Inside)]_vars
  /\ \A t \in LockUsers : Waiting(t) ~> (lock = t)

\* C23 witness: the handler waits to delete a policy, after one was uploaded,
\* while the loop holds the lock in its error handler.
C23_Witness ==
  /\ pc["rd"] = "w_del"
  /\ pc["bg"] = "cs_exc"
  /\ lock = "bg"
  /\ state.policies.up # <<>>


\* --------------------------------------------- a cycle that fails after the check
\* C24: when the loop's last cycle raised after its due check, the next call
\* of scan_once(force=False) that finds the document present, with the
\* modification time that cycle saw, goes on to detection.
C24_ChangeNotLost ==
  [][(/\ pc["bg"] = "cs1"
      /\ pc'["bg"] # "cs1"
      /\ state.last_scan_error = "exception"
      /\ docDisk # None
      /\ docDisk = state.doc_mtime) => pc'["bg"] = "scan"]_vars

====
